---- MODULE Spec2Model ----
(***************************************************************************)
(* Model of the environment dashboard repository:                          *)
(*   - load_data.py: the paginated fetch of the NOAA volcano listing and   *)
(*     the save of the accumulated collection;                             *)
(*   - earthquake_dashboard.py: the three threshold classifiers and the    *)
(*     columns the dashboard computes with them for a row.                 *)
(***************************************************************************)
EXTENDS Integers, Sequences, FiniteSets, TLC

VARIABLES
    pc,             \* position of the load_data.py script
    page,           \* load_data.py: page
    all_volcanoes,  \* load_data.py: all_volcanoes
    requested,      \* the page parameter of every requests.get issued, in order
    served,         \* the outcome of every requests.get, in order
    written,        \* every document dumped to noaa_volcanoes.json, in order
    reported,       \* every count shown by the final message, in order
    row,            \* earthquake_dashboard.py: one row of the earthquakes frame
    stage           \* which of the row's columns have been computed

fetchVars == <<pc, page, all_volcanoes, requested, served, written, reported>>
vars == <<pc, page, all_volcanoes, requested, served, written, reported, row, stage>>

----------------------------------------------------------------------------
(* Bounds of the model *)

\* the largest totalPages value the endpoint reports
MaxTotalPages == 3
\* the largest number of items in one page
MaxItems == 2
\* the number of float steps in one unit (a step is 1/Resolution)
Resolution == 10
\* how many steps around each threshold the classifier inputs cover
Window == 2

----------------------------------------------------------------------------
(* The remote listing endpoint: what one requests.get can produce *)

\* the opaque records of the listing: the endpoint lists distinct records, the
\* i-th record of page p being the record (p, i)
Volcano(p, i) == [page |-> p, index |-> i]

\* the item lists a response to a request for page p may carry
ItemLists(p) == {[i \in 1..n |-> Volcano(p, i)] : n \in 0..MaxItems}

\* the keys a response body may carry
Keys == {"items", "totalPages"}

\* a parsed body: a dict with any subset of the two keys; the value of an
\* absent key is a placeholder that is never read
Dicts(p) ==
    {[keys |-> k, items |-> i, totalPages |-> t] :
        k \in SUBSET Keys, i \in ItemLists(p), t \in (-1)..MaxTotalPages}

Data(p) ==
    {d \in Dicts(p) : /\ ("items" \notin d.keys => d.items = <<>>)
                      /\ ("totalPages" \notin d.keys => d.totalPages = 0)}

EmptyDict == [keys |-> {}, items |-> <<>>, totalPages |-> 0]

StatusCodes == {200, 500}

\* outcomes of requests.get for page p: the call raises (kind "exception"), or
\* it returns a response with a status code and a body that parses as JSON or
\* does not
Outcomes(p) ==
    {[kind |-> "exception", status_code |-> 0, json |-> FALSE, data |-> EmptyDict]}
    \cup {[kind |-> "response", status_code |-> s, json |-> TRUE, data |-> d] :
            s \in StatusCodes, d \in Data(p)}
    \cup {[kind |-> "response", status_code |-> s, json |-> FALSE, data |-> EmptyDict] :
            s \in StatusCodes}

\* dict.get(key, default)
Get(d, key, default) == IF key \in d.keys THEN d[key] ELSE default

----------------------------------------------------------------------------
(* load_data.py *)

FetchInit ==
    /\ pc = "request"
    /\ page = 1
    /\ all_volcanoes = <<>>
    /\ requested = <<>>
    /\ served = <<>>
    /\ written = <<>>
    /\ reported = <<>>

\* response = requests.get(BASE_URL, params={"page": page})
Request ==
    /\ pc = "request"
    /\ requested' = Append(requested, page)
    /\ pc' = "await"
    /\ UNCHANGED <<page, all_volcanoes, served, written, reported, row, stage>>

\* requests.get raises: nothing catches it, the script ends with a traceback
TransportError ==
    /\ pc = "await"
    /\ \E response \in Outcomes(requested[Len(requested)]) :
        /\ response.kind = "exception"
        /\ served' = Append(served, response)
    /\ pc' = "crashed"
    /\ UNCHANGED <<page, all_volcanoes, requested, written, reported, row, stage>>

\* the failed request is issued again instead of leaving the loop
NextPcOnFailureRetry == "request"

\* if response.status_code != 200: ... break
NextPcOnFailure == "save"

FailedStatus ==
    /\ pc = "await"
    /\ \E response \in Outcomes(requested[Len(requested)]) :
        /\ response.kind = "response"
        /\ response.status_code # 200
        /\ served' = Append(served, response)
    /\ pc' = NextPcOnFailure
    /\ UNCHANGED <<page, all_volcanoes, requested, written, reported, row, stage>>

\* response.json() raises on a body that is not JSON: nothing catches it
BadBody ==
    /\ pc = "await"
    /\ \E response \in Outcomes(requested[Len(requested)]) :
        /\ response.kind = "response"
        /\ response.status_code = 200
        /\ ~response.json
        /\ served' = Append(served, response)
    /\ pc' = "crashed"
    /\ UNCHANGED <<page, all_volcanoes, requested, written, reported, row, stage>>

\* all_volcanoes.extend(data.get("items", []))
Extended(acc, data) == acc \o Get(data, "items", <<>>)

\* the stop test with > in place of >=
LastPageStrict(p, data) == p > Get(data, "totalPages", 1)

\* the stop test with a default of 2 for an absent totalPages
LastPageDefaultTwo(p, data) == p >= Get(data, "totalPages", 2)

\* the stop test taken one page early
LastPageEarly(p, data) == p + 1 >= Get(data, "totalPages", 1)

\* if page >= data.get("totalPages", 1): break
LastPage(p, data) == p >= Get(data, "totalPages", 1)

\* the page counter stepping by two
NextPageSkip(p) == p + 2

\* page += 1
NextPage(p) == p + 1

PageOk ==
    /\ pc = "await"
    /\ \E response \in Outcomes(requested[Len(requested)]) :
        /\ response.kind = "response"
        /\ response.status_code = 200
        /\ response.json
        /\ served' = Append(served, response)
        /\ LET data == response.data IN
            /\ all_volcanoes' = Extended(all_volcanoes, data)
            /\ IF LastPage(page, data)
                  THEN /\ pc' = "save"
                       /\ page' = page
                  ELSE /\ pc' = "request"
                       /\ page' = NextPage(page)
    /\ UNCHANGED <<requested, written, reported, row, stage>>

\* the document json.dump writes
Document(acc) == acc

\* with open(...) as f: json.dump(all_volcanoes, f); print(f"Saved {len(all_volcanoes)} ...")
Save ==
    /\ pc = "save"
    /\ written' = Append(written, Document(all_volcanoes))
    /\ reported' = Append(reported, Len(all_volcanoes))
    /\ pc' = "done"
    /\ UNCHANGED <<page, all_volcanoes, requested, served, row, stage>>

----------------------------------------------------------------------------
(* earthquake_dashboard.py: the classifiers *)

\* A float is NaN or a multiple of 1/Resolution, held as its number of steps.
\* Every ordered comparison with NaN is false, as in Python.
Float(steps) == [nan |-> FALSE, v |-> steps]
NaN == [nan |-> TRUE, v |-> 0]

\* x > c, x < c, x >= c for a float x and an integer literal c
Gt(x, c) == ~x.nan /\ x.v > c * Resolution
Lt(x, c) == ~x.nan /\ x.v < c * Resolution
Ge(x, c) == ~x.nan /\ x.v >= c * Resolution

\* the risk score with >= in place of > at 50
get_seismic_risk_score_inclusive(lat, lon) ==
    IF Ge(lat, 50) THEN "High Risk"
    ELSE IF Lt(lat, -50) THEN "Moderate Risk"
    ELSE "Low Risk"

get_seismic_risk_score(lat, lon) ==
    IF Gt(lat, 50) THEN "High Risk"
    ELSE IF Lt(lat, -50) THEN "Moderate Risk"
    ELSE "Low Risk"

\* the tip with > in place of >= at 5
get_educational_tip_exclusive_five(magnitude) ==
    IF Ge(magnitude, 7) THEN "Drop, Cover, and Hold On"
    ELSE IF Gt(magnitude, 5) THEN "Be Prepared"
    ELSE "Stay Alert"

\* the tip with > in place of >= at 7
get_educational_tip_exclusive_seven(magnitude) ==
    IF Gt(magnitude, 7) THEN "Drop, Cover, and Hold On"
    ELSE IF Ge(magnitude, 5) THEN "Be Prepared"
    ELSE "Stay Alert"

get_educational_tip(magnitude) ==
    IF Ge(magnitude, 7) THEN "Drop, Cover, and Hold On"
    ELSE IF Ge(magnitude, 5) THEN "Be Prepared"
    ELSE "Stay Alert"

\* the impact level with depth <= 70 in place of depth < 70
calculate_impact_level_inclusive_depth(magnitude, depth) ==
    IF Ge(magnitude, 7) THEN "Severe"
    ELSE IF Ge(magnitude, 5) /\ ~Gt(depth, 70) /\ ~depth.nan THEN "Moderate"
    ELSE "Minor"

calculate_impact_level(magnitude, depth) ==
    IF Ge(magnitude, 7) THEN "Severe"
    ELSE IF Ge(magnitude, 5) /\ Lt(depth, 70) THEN "Moderate"
    ELSE "Minor"

\* the values within Window steps of the threshold c
Near(c) == {Float(c * Resolution + d) : d \in (-Window)..Window}

Latitudes == Near(50) \cup Near(-50) \cup {Float(0), Float(90 * Resolution), Float(-90 * Resolution), NaN}
Longitudes == {Float(-180 * Resolution), Float(0), Float(180 * Resolution)}
Magnitudes == Near(5) \cup Near(7) \cup {Float(0), Float(10 * Resolution), NaN}
Depths == Near(70) \cup {Float(-Resolution), Float(0), Float(700 * Resolution), NaN}

\* one row of the earthquakes frame; a column not yet added holds ""
Rows ==
    {[latitude |-> lat, longitude |-> lon, magnitude |-> mag, depth |-> dep,
      risk_score |-> "", safety_tip |-> "", impact_level |-> ""] :
        lat \in Latitudes, lon \in Longitudes, mag \in Magnitudes, dep \in Depths}

RowIdle ==
    [latitude |-> Float(0), longitude |-> Float(0), magnitude |-> Float(0),
     depth |-> Float(0), risk_score |-> "", safety_tip |-> "", impact_level |-> ""]

\* earthquakes["risk_score"] = earthquakes.apply(lambda row: get_seismic_risk_score(...))
RiskScoreColumn ==
    /\ stage = "loaded"
    /\ row' = [row EXCEPT !.risk_score = get_seismic_risk_score(row.latitude, row.longitude)]
    /\ stage' = "risk_score"
    /\ UNCHANGED fetchVars

\* earthquakes["safety_tip"] = earthquakes["magnitude"].apply(get_educational_tip)
SafetyTipColumn ==
    /\ stage = "risk_score"
    /\ row' = [row EXCEPT !.safety_tip = get_educational_tip(row.magnitude)]
    /\ stage' = "safety_tip"
    /\ UNCHANGED fetchVars

\* earthquakes["impact_level"] = earthquakes.apply(lambda row: calculate_impact_level(...))
ImpactLevelColumn ==
    /\ stage = "safety_tip"
    /\ row' = [row EXCEPT !.impact_level = calculate_impact_level(row.magnitude, row.depth)]
    /\ stage' = "impact_level"
    /\ UNCHANGED fetchVars

\* the dashboard with one fetched row, the loader not running
ClassifyInit ==
    /\ FetchInit
    /\ row \in Rows
    /\ stage = "loaded"

ClassifyNext ==
    \/ RiskScoreColumn
    \/ SafetyTipColumn
    \/ ImpactLevelColumn

ClassifySpec == ClassifyInit /\ [][ClassifyNext]_vars

----------------------------------------------------------------------------
(* load_data.py run on its own *)

Init ==
    /\ FetchInit
    /\ row = RowIdle
    /\ stage = "idle"

Next ==
    \/ Request
    \/ TransportError
    \/ FailedStatus
    \/ BadBody
    \/ PageOk
    \/ Save

Spec == Init /\ [][Next]_vars

FairSpec == Spec /\ WF_vars(Next)

----------------------------------------------------------------------------
(* What the properties below speak about *)

\* the i-th request got a response with status 200 whose body parsed
Succeeded(i) ==
    /\ served[i].kind = "response"
    /\ served[i].status_code = 200
    /\ served[i].json

\* the i-th request got a response with a status other than 200
Failed(i) ==
    /\ served[i].kind = "response"
    /\ served[i].status_code # 200

HasKey(i, key) == key \in served[i].data.keys

\* the items field of the i-th response, nothing when the field is absent
PageItems(i) == IF HasKey(i, "items") THEN served[i].data.items ELSE <<>>

\* the items of the first k responses, in the order of the requests
RECURSIVE ItemsUpTo(_)
ItemsUpTo(k) == IF k = 0 THEN <<>> ELSE ItemsUpTo(k - 1) \o PageItems(k)

LoopExited == pc \in {"save", "done"}

Max(a, b) == IF a >= b THEN a ELSE b

\* every request so far was answered with status 200 and totalPages = N
AllPagesSucceed(N) ==
    \A i \in DOMAIN served :
        Succeeded(i) /\ HasKey(i, "totalPages") /\ served[i].data.totalPages = N

----------------------------------------------------------------------------
(* Paginated fetcher *)

\* C1: when every request is answered with status 200 and totalPages = N, the
\* loop issues the requests for pages 1..N in order, never more than N, and at
\* loop exit exactly N, the collection being the items of pages 1..N in order.
C1_AllPagesSucceed ==
    \A N \in 1..MaxTotalPages :
        AllPagesSucceed(N) =>
            /\ Len(requested) <= N
            /\ \A i \in DOMAIN requested : requested[i] = i
            /\ pc # "crashed"
            /\ LoopExited =>
                /\ Len(requested) = N
                /\ Len(served) = N
                /\ all_volcanoes = ItemsUpTo(N)

\* three pages of two items each: six items, three requests
C1_Witness ==
    /\ pc = "done"
    /\ AllPagesSucceed(3)
    /\ Len(served) = 3
    /\ \A i \in 1..3 : Len(PageItems(i)) = 2
    /\ Len(all_volcanoes) = 6
    /\ requested = <<1, 2, 3>>

\* C2: a response with a status other than 200 to the k-th request is the last
\* one: no request follows it, its items are not appended, and the collection
\* at loop exit is the items of pages 1..k-1.
C2_NonSuccessStatus ==
    \A k \in DOMAIN served :
        Failed(k) =>
            /\ k = Len(served)
            /\ Len(requested) = k
            /\ LoopExited
            /\ \A i \in 1..(k - 1) : Succeeded(i)
            /\ all_volcanoes = ItemsUpTo(k - 1)

\* page 2 fails with a body that carries items, page 1 had two items
C2_Witness ==
    /\ pc = "done"
    /\ Len(served) = 2
    /\ Failed(2)
    /\ Len(PageItems(2)) > 0
    /\ Len(PageItems(1)) = 2
    /\ all_volcanoes = PageItems(1)

\* the run is over: the script finished or ended with an uncaught exception
RunEnded == pc \in {"done", "crashed"}

\* C3: however the fetching ends, the run writes the output document exactly
\* once, never before the loop has ended, with the collection accumulated so
\* far as its content and the number of items written as the reported count.
C3_SavedOnceInEveryRun ==
    /\ pc \in {"request", "await"} => written = <<>>
    /\ Len(written) <= 1
    /\ RunEnded =>
        /\ written = <<all_volcanoes>>
        /\ reported = <<Len(written[1])>>

\* C7: a successful response without a totalPages field ends the loop after
\* its items were appended, whatever the page; a successful response without
\* an items field appends nothing and does not end the loop when its
\* totalPages is larger than the page.
C7_MissingFields ==
    /\ \A i \in DOMAIN served :
        (Succeeded(i) /\ ~HasKey(i, "totalPages")) =>
            /\ i = Len(served)
            /\ Len(requested) = i
            /\ LoopExited
            /\ all_volcanoes = ItemsUpTo(i - 1) \o PageItems(i)
    /\ \A i \in DOMAIN served :
        (Succeeded(i) /\ ~HasKey(i, "items")) =>
            /\ i = Len(served) => all_volcanoes = ItemsUpTo(i - 1)
            /\ (HasKey(i, "totalPages") /\ served[i].data.totalPages > requested[i]) =>
                \/ Len(requested) > i
                \/ pc = "request" /\ page = requested[i] + 1

\* page 2 has items and no totalPages: the loop ended there, items appended
C7_Witness ==
    /\ pc = "done"
    /\ Len(served) = 2
    /\ Succeeded(2)
    /\ ~HasKey(2, "totalPages")
    /\ Len(PageItems(2)) = 2
    /\ Succeeded(1)
    /\ ~HasKey(1, "items")
    /\ all_volcanoes = PageItems(2)

\* C8: the i-th request is for page i, and a request that did not succeed is
\* the last request of the run.
C8_RequestOrder ==
    /\ \A i \in DOMAIN requested : requested[i] = i
    /\ Len(served) <= Len(requested)
    /\ \A i \in DOMAIN served : ~Succeeded(i) => Len(requested) = i

\* three requests, the third failed, the run went on to its end
C8_Witness ==
    /\ pc = "done"
    /\ Len(requested) = 3
    /\ Failed(3)

\* the number of requests is at most max(N, 1) when no successful response
\* reported a totalPages above N
C9_RequestBound ==
    \A N \in (-1)..MaxTotalPages :
        (\A i \in DOMAIN served :
            (Succeeded(i) /\ HasKey(i, "totalPages")) => served[i].data.totalPages <= N)
        => Len(requested) <= Max(N, 1)

\* a step that handles a successful response decides by that response alone:
\* the loop ends when page >= its totalPages (1 when absent), and otherwise
\* goes on to request page + 1
C9_StopTest ==
    (pc = "await" /\ Len(served') = Len(served) + 1 /\ pc' # "crashed"
        /\ served'[Len(served')].status_code = 200)
    => LET data == served'[Len(served')].data
           total == IF "totalPages" \in data.keys THEN data.totalPages ELSE 1
       IN  IF page >= total
              THEN pc' = "save"
              ELSE pc' = "request" /\ page' = page + 1

\* C9: with every response delivered the loop ends, after at most max(N, 1)
\* requests when no response reports a totalPages above N; the stop test reads
\* the totalPages of the response just received, so the loop goes on for as
\* long as that value is larger than the page.
C9_Termination ==
    /\ []C9_RequestBound
    /\ <>(pc \notin {"request", "await"})
    /\ [][C9_StopTest]_vars

\* totalPages = -1 on page 1: one request, then the save
C9_Witness ==
    /\ pc = "done"
    /\ Len(requested) = 1
    /\ Succeeded(1)
    /\ HasKey(1, "totalPages")
    /\ served[1].data.totalPages = -1

----------------------------------------------------------------------------
(* Classifiers *)

\* C4: the impact level is "Severe" for magnitude >= 7, "Moderate" for
\* 5 <= magnitude < 7 at depth < 70, and "Minor" in every other case.
C4_ImpactLevel ==
    stage = "impact_level" =>
        LET m == row.magnitude
            d == row.depth
            severe == ~m.nan /\ m.v >= 7 * Resolution
            moderate == /\ ~m.nan /\ m.v >= 5 * Resolution /\ m.v < 7 * Resolution
                        /\ ~d.nan /\ d.v < 70 * Resolution
        IN  /\ severe => row.impact_level = "Severe"
            /\ moderate => row.impact_level = "Moderate"
            /\ (~severe /\ ~moderate) => row.impact_level = "Minor"

\* magnitude in [5, 7) at a depth of exactly 70 is "Minor"
C4_Witness ==
    /\ stage = "impact_level"
    /\ row.magnitude \in {Float(5 * Resolution), Float(7 * Resolution - 1)}
    /\ row.depth = Float(70 * Resolution)
    /\ row.impact_level = "Minor"

\* C5: the risk score is "High Risk" for latitude > 50, "Moderate Risk" for
\* latitude < -50, "Low Risk" for -50 <= latitude <= 50, and is the same for
\* every longitude.
C5_RiskScore ==
    row.risk_score # "" =>
        LET lat == row.latitude IN
            /\ (~lat.nan /\ lat.v > 50 * Resolution) => row.risk_score = "High Risk"
            /\ (~lat.nan /\ lat.v < (-50) * Resolution) => row.risk_score = "Moderate Risk"
            /\ (~lat.nan /\ lat.v >= (-50) * Resolution /\ lat.v <= 50 * Resolution)
                => row.risk_score = "Low Risk"
            /\ \A lon \in Longitudes :
                get_seismic_risk_score(lat, lon) = row.risk_score

\* a latitude of exactly 50, away from longitude 0, is "Low Risk"
C5_Witness ==
    /\ row.risk_score = "Low Risk"
    /\ row.latitude = Float(50 * Resolution)
    /\ row.longitude = Float(180 * Resolution)

\* C6: the tip is "Drop, Cover, and Hold On" for magnitude >= 7, "Be Prepared"
\* for 5 <= magnitude < 7 and "Stay Alert" for magnitude < 5.
C6_SafetyTip ==
    row.safety_tip # "" =>
        LET m == row.magnitude IN
            /\ (~m.nan /\ m.v >= 7 * Resolution) => row.safety_tip = "Drop, Cover, and Hold On"
            /\ (~m.nan /\ m.v >= 5 * Resolution /\ m.v < 7 * Resolution)
                => row.safety_tip = "Be Prepared"
            /\ (~m.nan /\ m.v < 5 * Resolution) => row.safety_tip = "Stay Alert"

\* a magnitude of exactly 5 gives "Be Prepared"
C6_Witness ==
    /\ row.safety_tip = "Be Prepared"
    /\ row.magnitude = Float(5 * Resolution)

\* C10: on a row, the impact is "Severe" exactly when the tip is "Drop, Cover,
\* and Hold On"; "Moderate" implies "Be Prepared"; "Stay Alert" implies "Minor".
C10_TipAndImpactAgree ==
    stage = "impact_level" =>
        /\ row.impact_level = "Severe" <=> row.safety_tip = "Drop, Cover, and Hold On"
        /\ row.impact_level = "Moderate" => row.safety_tip = "Be Prepared"
        /\ row.safety_tip = "Stay Alert" => row.impact_level = "Minor"

\* the converse fails at depth >= 70: "Be Prepared" with "Minor"
C10_Witness ==
    /\ stage = "impact_level"
    /\ row.safety_tip = "Be Prepared"
    /\ row.impact_level = "Minor"
    /\ ~row.depth.nan
    /\ row.depth.v >= 70 * Resolution

====
